---- MODULE Spec2Model ----
(***************************************************************************)
(* Model of the reconciliation engine of cloud_duplicate_analyzer.py:      *)
(* classify_pair and the stages of analyze() (main aggregation pass,       *)
(* mixed-type detection pass, folder-level analysis, subtree rollups,      *)
(* safe-to-delete roots).                                                  *)
(*                                                                         *)
(* Path strings are modelled as the sequence of their "/"-separated        *)
(* components, so "p/x" is <<"p","x">>, str(rel.parent) of a top-level     *)
(* file is <<".">> and the renamed top-level folder is <<"(root)">>.       *)
(* s.startswith(t + "/") is then "t is a proper prefix of s".              *)
(* The output lists duplicate_groups / conflict_groups / symlinks /        *)
(* folder_comparisons / safe_to_delete_roots are modelled as sets: the     *)
(* order of their items is not modelled.                                   *)
(***************************************************************************)
EXTENDS Integers, Sequences, FiniteSets, TLC

VARIABLES labels, scanned, mtime_fuzz, use_checksum, pc,
          duplicate_groups, conflict_groups, symlinks,
          folder_comparisons, safe_to_delete_roots,
          pair_result, md5_calls

vars == <<labels, scanned, mtime_fuzz, use_checksum, pc,
          duplicate_groups, conflict_groups, symlinks,
          folder_comparisons, safe_to_delete_roots,
          pair_result, md5_calls>>

\* The value returned by a direct call of classify_pair, and the records
\* whose files that call hashed.
call_vars == <<pair_result, md5_calls>>

\* ------------------------------------------------------------ bounds --
\* Number of distinct modification times a scanned file may carry.
MTimeSteps == 3
\* Largest number of file records in one directory of the folder-tree inputs.
MaxFiles == 2

\* --------------------------------------------------------- constants --
\* argparse default of --mtime-fuzz.
DefaultMtimeFuzz == 5

\* Python's None.
None == "None"
\* str(rel.parent) of a file directly under the scanned root.
Dot == <<".">>
\* folder_path given to the top-level folder.
RootPath == <<"(root)">>

\* ----------------------------------------------------------- helpers --
\* str.lower() on the file names the model uses.
Lower(s) == CASE s = "F.txt" -> "f.txt"
              [] s = "G.txt" -> "g.txt"
              [] OTHER -> s

\* str.lower() of a path: every component folded.
LowerPath(p) == [i \in 1..Len(p) |-> Lower(p[i])]

\* s.startswith(t + "/") on component sequences.
StartsWithSlash(s, t) ==
    /\ Len(s) > Len(t)
    /\ SubSeq(s, 1, Len(t)) = t

\* str(rel) for a file fname in folder (parent "." is not part of the path).
RelPath(folder, fname) == IF folder = Dot THEN <<fname>> ELSE folder \o <<fname>>

\* The elements of a sequence.
Range(s) == {s[i] : i \in 1..Len(s)}

\* The pairs of neighbours only.
AdjacentPairs(s) == [i \in 1..(Len(s) - 1) |-> <<s[i], s[i + 1]>>]

\* itertools.combinations(s, 2): the pairs <<s[i], s[j]>>, i < j, in
\* lexicographic order of (i, j).
Combinations2(s) ==
    LET n == Len(s)
        PairsFrom(i) == [j \in 1..(n - i) |-> <<s[i], s[i + j]>>]
        RECURSIVE Cat(_)
        Cat(i) == IF i >= n THEN <<>> ELSE PairsFrom(i) \o Cat(i + 1)
    IN  Cat(1)

\* abs() on integers.
Abs(x) == IF x < 0 THEN 0 - x ELSE x

\* max / min of a non-empty set of integers.
MaxOf(S) == CHOOSE x \in S : \A y \in S : y <= x
MinOf(S) == CHOOSE x \in S : \A y \in S : x <= y

\* ---------------------------------------------------------- scanning --
\* Record scan_directory builds for a regular file. content and readable
\* stand for the bytes on disk and for whether open() succeeds on them.
RegularRecord(folder, fname, content, mtime, readable) ==
    [rel_path       |-> RelPath(folder, fname),
     name           |-> Lower(fname),
     name_orig      |-> fname,
     size           |-> Len(content),
     mtime          |-> mtime,
     folder         |-> folder,
     is_symlink     |-> FALSE,
     symlink_target |-> None,
     content        |-> content,
     readable       |-> readable]

\* Record scan_directory builds for a symlink: size -1, mtime 0.
SymlinkRecord(folder, fname, target) ==
    [rel_path       |-> RelPath(folder, fname),
     name           |-> Lower(fname),
     name_orig      |-> fname,
     size           |-> 0 - 1,
     mtime          |-> 0,
     folder         |-> folder,
     is_symlink     |-> TRUE,
     symlink_target |-> target,
     content        |-> "",
     readable       |-> FALSE]

\* md5(): the digest of the content, or the empty string when the file
\* cannot be read. A digest is modelled as <<"md5", content>>, the empty
\* string as <<>>.
md5(r) == IF r.readable THEN <<"md5", r.content>> ELSE <<>>

\* --------------------------------------------------------- matching --
\* The value classify_pair returns for None.
NoResult == <<>>

\* classify_pair with one slip, named by slip:
\*   "empty_by_mtime"  the empty-file rule is missing
\*   "always_hash"     use_checksum is not consulted
\*   "strict_fuzz"     mtime_same uses < instead of <=
\*   "hash_and"        the fallback needs both digests to fail
\*   "guard_first"     the name/size guard comes before the symlink rules
\*   "null_equal"      symlink targets are compared without the None tests
\*   "size_only_guard" the guard compares the sizes only
classify_pair_slip(a, b, fuzz, checksum, slip) ==
    LET delta      == Abs(a.mtime - b.mtime)
        mtime_same == IF slip = "strict_fuzz" THEN delta < fuzz ELSE delta <= fuzz
        by_mtime   == IF mtime_same THEN "same" ELSE "diverged"
        hash_a     == md5(a)
        hash_b     == md5(b)
        failed     == IF slip = "hash_and"
                        THEN hash_a = <<>> /\ hash_b = <<>>
                        ELSE hash_a = <<>> \/ hash_b = <<>>
        guard      == IF slip = "size_only_guard"
                        THEN a.size # b.size
                        ELSE a.name # b.name \/ a.size # b.size
    IN  IF slip = "guard_first" /\ guard
          THEN NoResult
        ELSE IF a.is_symlink # b.is_symlink
          THEN <<"mixed_type", "conflict">>
        ELSE IF a.is_symlink /\ b.is_symlink
          THEN IF /\ slip = "null_equal" \/ a.symlink_target # None
                  /\ slip = "null_equal" \/ b.symlink_target # None
                  /\ a.symlink_target = b.symlink_target
                 THEN <<"symlink", "target_identical">>
                 ELSE <<"symlink", "target_diverged">>
        ELSE IF guard
          THEN NoResult
        ELSE IF slip # "empty_by_mtime" /\ a.size = 0
          THEN <<"identical", "same">>
        ELSE IF slip # "always_hash" /\ ~checksum
          THEN <<"unverified", by_mtime>>
        ELSE IF failed
          THEN <<"unverified", by_mtime>>
        ELSE IF hash_a = hash_b
          THEN <<"identical", by_mtime>>
          ELSE <<"different", IF mtime_same THEN "phantom" ELSE "diverged">>

EmptyByMtime(a, b, fuzz, checksum) ==
    classify_pair_slip(a, b, fuzz, checksum, "empty_by_mtime")

AlwaysHash(a, b, fuzz, checksum) ==
    classify_pair_slip(a, b, fuzz, checksum, "always_hash")

StrictFuzz(a, b, fuzz, checksum) ==
    classify_pair_slip(a, b, fuzz, checksum, "strict_fuzz")

HashAnd(a, b, fuzz, checksum) ==
    classify_pair_slip(a, b, fuzz, checksum, "hash_and")

GuardFirst(a, b, fuzz, checksum) ==
    classify_pair_slip(a, b, fuzz, checksum, "guard_first")

NullEqual(a, b, fuzz, checksum) ==
    classify_pair_slip(a, b, fuzz, checksum, "null_equal")

SizeOnlyGuard(a, b, fuzz, checksum) ==
    classify_pair_slip(a, b, fuzz, checksum, "size_only_guard")

\* classify_pair(a, b, mtime_fuzz, use_checksum)
classify_pair(a, b, fuzz, checksum) ==
    LET mtime_same == Abs(a.mtime - b.mtime) <= fuzz
        by_mtime   == IF mtime_same THEN "same" ELSE "diverged"
        hash_a     == md5(a)
        hash_b     == md5(b)
    IN  IF a.is_symlink # b.is_symlink
          THEN <<"mixed_type", "conflict">>
        ELSE IF a.is_symlink /\ b.is_symlink
          THEN IF /\ a.symlink_target # None
                  /\ b.symlink_target # None
                  /\ a.symlink_target = b.symlink_target
                 THEN <<"symlink", "target_identical">>
                 ELSE <<"symlink", "target_diverged">>
        ELSE IF a.name # b.name \/ a.size # b.size
          THEN NoResult
        ELSE IF a.size = 0
          THEN <<"identical", "same">>
        ELSE IF ~checksum
          THEN <<"unverified", by_mtime>>
        ELSE IF hash_a = <<>> \/ hash_b = <<>>
          THEN <<"unverified", by_mtime>>
        ELSE IF hash_a = hash_b
          THEN <<"identical", by_mtime>>
          ELSE <<"different", IF mtime_same THEN "phantom" ELSE "diverged">>

\* The records whose files one call of classify_pair hashes: both, once the
\* call reaches hash_a = md5(...) and hash_b = md5(...), none before.
classify_pair_md5_calls(a, b, checksum) ==
    IF a.is_symlink # b.is_symlink THEN {}
    ELSE IF a.is_symlink /\ b.is_symlink THEN {}
    ELSE IF a.name # b.name \/ a.size # b.size THEN {}
    ELSE IF a.size = 0 THEN {}
    ELSE IF ~checksum THEN {}
    ELSE {a, b}

\* A direct call classify_pair(a, b, mtime_fuzz, use_checksum) on the record
\* of directory A and the record of directory B, as the unit tests make it.
ClassifyPair ==
    /\ pc = "pair"
    /\ pair_result' = classify_pair(scanned["A"][1], scanned["B"][1],
                                    mtime_fuzz, use_checksum)
    /\ md5_calls' = classify_pair_md5_calls(scanned["A"][1], scanned["B"][1],
                                            use_checksum)
    /\ pc' = "scanned"
    /\ UNCHANGED <<labels, scanned, mtime_fuzz, use_checksum, duplicate_groups,
                   conflict_groups, symlinks, folder_comparisons,
                   safe_to_delete_roots>>

\* An index on the name alone.
build_name_index(records, key) ==
    SelectSeq(records, LAMBDA r : r.name = key[1])

\* build_name_size_index(records)[key]: the records with that (name, size)
\* key, in scan order.
build_name_size_index(records, key) ==
    SelectSeq(records, LAMBDA r : <<r.name, r.size>> = key)

\* all_keys: every (name, size) key of every scanned record.
all_keys ==
    UNION {{<<r.name, r.size>> : r \in Range(scanned[l])} : l \in Range(labels)}

\* present_in taking the last hit of every directory.
present_in_key_last(key) ==
    LET withHits == {l \in Range(labels) :
                        build_name_size_index(scanned[l], key) # <<>>}
    IN  [l \in withHits |->
            build_name_size_index(scanned[l], key)[
                Len(build_name_size_index(scanned[l], key))]]

\* present_in of the main pass: the first hit of every directory that has one.
present_in_key(key) ==
    LET withHits == {l \in Range(labels) :
                        build_name_size_index(scanned[l], key) # <<>>}
    IN  [l \in withHits |-> build_name_size_index(scanned[l], key)[1]]

\* The keys of a dict filled by "for label in labels", in insertion order:
\* a label that occurs twice in labels is one key, at its first position.
RECURSIVE DictKeys(_)
DictKeys(ls) ==
    IF ls = <<>> THEN <<>>
    ELSE LET front == DictKeys(SubSeq(ls, 1, Len(ls) - 1))
             last  == ls[Len(ls)]
         IN  IF last \in Range(front) THEN front ELSE Append(front, last)

\* list(present_in.keys()): the keys in insertion order, which is the order
\* of labels.
label_list(present_in) ==
    SelectSeq(DictKeys(labels), LAMBDA l : l \in DOMAIN present_in)

content_rank(cm) == CASE cm = "identical"  -> 0
                      [] cm = "unverified" -> 1
                      [] cm = "different"  -> 2

version_rank(vs) == CASE vs = "same"     -> 0
                      [] vs = "diverged" -> 1
                      [] vs = "phantom"  -> 2

\* JoinContent without the rank comparison: the last pair's verdict wins.
JoinContentLastWins(group_content, cm) == cm

\* if content_rank[cm] > content_rank[group_content]: group_content = cm
JoinContent(group_content, cm) ==
    IF content_rank(cm) > content_rank(group_content) THEN cm ELSE group_content

\* JoinVersion without the rank comparison: the last pair's verdict wins.
JoinVersionLastWins(group_version, vs) == vs

\* A version join keeping the first status that is not same.
JoinVersionFirstWins(group_version, vs) ==
    IF group_version = "same" THEN vs ELSE group_version

\* if version_rank[vs] > version_rank[group_version]: group_version = vs
JoinVersion(group_version, vs) ==
    IF version_rank(vs) > version_rank(group_version) THEN vs ELSE group_version

\* The loop over combinations(label_list, 2) with its three early exits.
\* acc.exit is "none" while the loop runs to its end, and names the exit
\* taken otherwise; acc.vs is the version status of the pair that broke out.
RECURSIVE FoldPairs(_, _, _)
FoldPairs(pairs, present_in, acc) ==
    IF pairs = <<>> THEN acc
    ELSE LET result == classify_pair(present_in[pairs[1][1]],
                                     present_in[pairs[1][2]],
                                     mtime_fuzz, use_checksum)
         IN  IF result = NoResult
               THEN [acc EXCEPT !.all_matched = FALSE, !.exit = "null"]
             ELSE IF result[1] = "symlink"
               THEN [acc EXCEPT !.all_matched = FALSE, !.exit = "symlink",
                                !.vs = result[2]]
             ELSE IF result[1] = "mixed_type"
               THEN [acc EXCEPT !.all_matched = FALSE, !.exit = "mixed_type",
                                !.vs = result[2]]
             ELSE FoldPairs(Tail(pairs), present_in,
                     [acc EXCEPT
                        !.group_content = JoinContent(@, result[1]),
                        !.group_version = JoinVersion(@, result[2])])

FoldStart == [group_content |-> "identical", group_version |-> "same",
              all_matched |-> TRUE, exit |-> "none", vs |-> None]

\* The first participant, whatever the modification times.
NewestInFirst(present_in) == label_list(present_in)[1]

\* max(present_in, key=mtime): the first label, in insertion order, whose
\* record has the largest mtime.
NewestIn(present_in) ==
    LET ll   == label_list(present_in)
        top  == MaxOf({present_in[l].mtime : l \in DOMAIN present_in})
        best == SelectSeq(ll, LAMBDA l : present_in[l].mtime = top)
    IN  best[1]

\* The group dict of the main pass (size, service_details and
\* age_difference_days are not modelled).
MakeGroup(present_in, group_content, group_version) ==
    LET ll == label_list(present_in)
    IN  [rel_path       |-> present_in[ll[1]].rel_path,
         name_orig      |-> present_in[ll[1]].name_orig,
         matches        |-> present_in,
         content_match  |-> group_content,
         version_status |-> group_version,
         newest_in      |-> IF group_version \in {"diverged", "phantom"}
                              THEN NewestIn(present_in) ELSE None]

\* The conflict group dict built for a symlink / regular-file mismatch, by
\* the main pass and by the mixed-type detection pass.
MakeMixedGroup(present_in, vs) ==
    LET ll == label_list(present_in)
    IN  [rel_path       |-> present_in[ll[1]].rel_path,
         name_orig      |-> present_in[ll[1]].name_orig,
         matches        |-> present_in,
         content_match  |-> "mixed_type",
         version_status |-> vs,
         newest_in      |-> None]

\* The entry appended to symlinks.
MakeSymlinkEntry(present_in, vs) ==
    LET ll == label_list(present_in)
    IN  [name_orig       |-> present_in[ll[1]].name_orig,
         rel_path        |-> present_in[ll[1]].rel_path,
         folder          |-> present_in[ll[1]].folder,
         is_symlink      |-> TRUE,
         symlink_targets |-> [l \in DOMAIN present_in |->
                                 present_in[l].symlink_target],
         symlink_status  |-> vs,
         services        |-> ll]

\* Bucket routing everything that is not identical to the conflicts.
BucketNonIdentical(group_content) ==
    IF group_content # "identical" THEN "conflict" ELSE "duplicate"

\* if group_content == "different": conflict_groups else duplicate_groups
Bucket(group_content) ==
    IF group_content = "different" THEN "conflict" ELSE "duplicate"

\* One iteration of "for key in all_keys": what the key contributes.
\* to is the list appended to ("none" when the key is skipped or dropped).
KeyOutcome(key) ==
    LET present_in == present_in_key(key)
        acc == FoldPairs(Combinations2(label_list(present_in)),
                         present_in, FoldStart)
    IN  IF Cardinality(DOMAIN present_in) < 2
          THEN [to |-> "none", item |-> None]
        ELSE IF acc.exit = "symlink"
          THEN [to |-> "symlinks", item |-> MakeSymlinkEntry(present_in, acc.vs)]
        ELSE IF acc.exit = "mixed_type"
          THEN [to |-> "conflict", item |-> MakeMixedGroup(present_in, acc.vs)]
        ELSE IF ~acc.all_matched
          THEN [to |-> "none", item |-> None]
        ELSE [to   |-> Bucket(acc.group_content),
              item |-> MakeGroup(present_in, acc.group_content,
                                 acc.group_version)]

ItemsTo(list) ==
    {KeyOutcome(key).item : key \in {k \in all_keys : KeyOutcome(k).to = list}}

\* The main aggregation pass of analyze(): the whole loop over all_keys.
MainPass ==
    /\ pc = "scanned"
    /\ duplicate_groups' = ItemsTo("duplicate")
    /\ conflict_groups' = ItemsTo("conflict")
    /\ symlinks' = ItemsTo("symlinks")
    /\ pc' = "matched"
    /\ UNCHANGED <<labels, scanned, mtime_fuzz, use_checksum,
                   folder_comparisons, safe_to_delete_roots, call_vars>>

\* ------------------------------------------ mixed-type detection pass --
\* rel_path_indexes[label][rp_lower]: a dict comprehension, so the last
\* record in scan order with that lower-cased rel_path wins. The result is a
\* sequence of zero or one record.
rel_path_index(label, rp_lower) ==
    LET hits == SelectSeq(scanned[label],
                          LAMBDA r : LowerPath(r.rel_path) = rp_lower)
    IN  IF hits = <<>> THEN <<>> ELSE <<hits[Len(hits)]>>

\* already_handled: the lower-cased rel_path of every item of the main pass.
already_handled ==
    {LowerPath(g.rel_path) : g \in conflict_groups}
      \cup {LowerPath(g.rel_path) : g \in duplicate_groups}
      \cup {LowerPath(e.rel_path) : e \in symlinks}

all_rel_paths ==
    UNION {{LowerPath(r.rel_path) : r \in Range(scanned[l])} : l \in Range(labels)}

\* present_in of the mixed-type pass.
present_in_path(rp_lower) ==
    LET having == {l \in Range(labels) : rel_path_index(l, rp_lower) # <<>>}
    IN  [l \in having |-> rel_path_index(l, rp_lower)[1]]

\* The rel_paths for which the pass appends a conflict group.
MixedTypePaths ==
    {rp \in all_rel_paths :
        /\ rp \notin already_handled
        /\ LET present_in == present_in_path(rp)
           IN  /\ Cardinality(DOMAIN present_in) >= 2
               /\ \E l \in DOMAIN present_in : present_in[l].is_symlink
               /\ \E l \in DOMAIN present_in : ~present_in[l].is_symlink}

MixedTypePass ==
    /\ pc = "matched"
    /\ conflict_groups' = conflict_groups \cup
          {MakeMixedGroup(present_in_path(rp), "conflict") : rp \in MixedTypePaths}
    /\ pc' = "mixed"
    /\ UNCHANGED <<labels, scanned, mtime_fuzz, use_checksum, duplicate_groups,
                   symlinks, folder_comparisons, safe_to_delete_roots,
                   call_vars>>

\* ----------------------------------------------- folder-level analysis --
\* The keys of folder_file_set(scanned[label]).
folder_keys(label) == {r.folder : r \in Range(scanned[label])}

\* folder_sets[label].get(folder, set())
folder_sets(label, folder) ==
    {r.name : r \in {q \in Range(scanned[label]) : q.folder = folder}}

\* The ancestor paths "/".join(parts[:depth]) added for one folder.
Ancestors(folder) ==
    {parent \in {SubSeq(folder, 1, depth) : depth \in 1..(Len(folder) - 1)} :
        parent # <<>> /\ parent # Dot}

all_folders ==
    LET direct == UNION {folder_keys(l) : l \in Range(labels)}
    IN  direct \cup UNION {Ancestors(f) : f \in direct}

label_has_presence(label, folder) ==
    \/ folder \in folder_keys(label)
    \/ \E f \in folder_keys(label) : StartsWithSlash(f, folder)

\* present: the labels with presence, in the order of labels.
present_at(folder) == SelectSeq(labels, LAMBDA l : label_has_presence(l, folder))

\* A pair relationship without the superset case.
PairRelationshipNoSuperset(sa, sb) ==
    IF sa = sb THEN "identical"
    ELSE IF sa \subseteq sb THEN "subset"
    ELSE "overlap"

\* The relationship of one pair of direct name sets.
PairRelationship(sa, sb) ==
    IF sa = sb THEN "identical"
    ELSE IF sa \subseteq sb THEN "subset"
    ELSE IF sb \subseteq sa THEN "superset"
    ELSE "overlap"

\* relationship of a folder, from the direct name sets of the present labels.
Relationship(folder, present) ==
    LET first == folder_sets(present[1], folder)
        relationships ==
            {PairRelationship(folder_sets(pr[1], folder), folder_sets(pr[2], folder)) :
                pr \in Range(Combinations2(present))}
    IN  IF \A l \in Range(present) : folder_sets(l, folder) = first
          THEN "identical"
        ELSE IF relationships = {"identical"} THEN "identical"
        ELSE IF "overlap" \in relationships THEN "overlap"
        ELSE IF "subset" \in relationships \/ "superset" \in relationships
          THEN "subset/superset"
        ELSE "overlap"

\* The generator handed to set.union(*...) when "only" is computed for label:
\* the present labels other than label.
OtherLabels(present, label) == SelectSeq(present, LAMBDA l : l # label)

\* in_pair = (sets_here[la] & sets_here[lb]) - in_all
InPair(folder, la, lb, in_all) ==
    (folder_sets(la, folder) \cap folder_sets(lb, folder)) \ in_all

\* details: "in_all", one "<label>_only" entry per present label and one
\* "<la>+<lb>" entry per pair of present labels with a non-empty in_pair.
\* The sorted lists are sets here, and the entries are indexed by the labels
\* their keys are built from.
MakeDetails(folder, present, in_all) ==
    LET others(label) ==
            UNION {folder_sets(l, folder) : l \in Range(OtherLabels(present, label))}
        shared == {pr \in Range(Combinations2(present)) :
                      InPair(folder, pr[1], pr[2], in_all) # {}}
    IN  [in_all |-> in_all,
         only   |-> [label \in Range(present) |->
                        folder_sets(label, folder) \ others(label)],
         pairs  |-> [pr \in shared |-> InPair(folder, pr[1], pr[2], in_all)]]

\* The dict appended to folder_comparisons.
MakeFolderComparison(folder) ==
    LET present == present_at(folder)
        all_in_folder == UNION {folder_sets(l, folder) : l \in Range(present)}
        in_all == {nm \in all_in_folder :
                      \A l \in Range(present) : nm \in folder_sets(l, folder)}
    IN  [folder_path        |-> IF folder # Dot THEN folder ELSE RootPath,
         services_present   |-> present,
         relationship       |-> Relationship(folder, present),
         total_unique_files |-> Cardinality(all_in_folder),
         files_in_all       |-> Cardinality(in_all),
         details            |-> MakeDetails(folder, present, in_all)]

\* A details loop in which no label raises.
DetailsNeverRaises(folder) == FALSE

\* The details loop of a compared folder raises TypeError: set.union() is
\* called without an argument when no present label differs from label.
DetailsRaises(folder) ==
    \E label \in Range(present_at(folder)) :
        OtherLabels(present_at(folder), label) = <<>>

\* The whole loop over sorted(all_folders). An exception of the details loop
\* leaves analyze(): no result is returned and the run ends at "raised".
FolderAnalysis ==
    /\ pc = "mixed"
    /\ LET compared == {g \in all_folders : Len(present_at(g)) >= 2}
       IN  IF \E f \in compared : DetailsRaises(f)
             THEN /\ pc' = "raised"
                  /\ UNCHANGED folder_comparisons
             ELSE /\ pc' = "folders"
                  /\ folder_comparisons' =
                        {MakeFolderComparison(f) : f \in compared}
    /\ UNCHANGED <<labels, scanned, mtime_fuzz, use_checksum, duplicate_groups,
                   conflict_groups, symlinks, safe_to_delete_roots, call_vars>>

\* ------------------------------------------------------ subtree rollups --
\* Descendants without the special case of "(root)".
DescendantsNoRoot(path, fcs) ==
    {d \in fcs : d.folder_path = path \/ StartsWithSlash(d.folder_path, path)}

\* descendants of a folder comparison: itself and every folder comparison
\* whose path starts with path + "/"; all of them for "(root)".
Descendants(path, fcs) ==
    IF path = RootPath THEN fcs
    ELSE {d \in fcs : d.folder_path = path \/ StartsWithSlash(d.folder_path, path)}

\* The sum of files_in_all instead of total_unique_files.
RECURSIVE SumFilesInAll(_)
SumFilesInAll(fcs) ==
    IF fcs = {} THEN 0
    ELSE LET d == CHOOSE x \in fcs : TRUE
         IN  d.files_in_all + SumFilesInAll(fcs \ {d})

\* sum(d["total_unique_files"] for d in descendants)
RECURSIVE SumTotalUniqueFiles(_)
SumTotalUniqueFiles(fcs) ==
    IF fcs = {} THEN 0
    ELSE LET d == CHOOSE x \in fcs : TRUE
         IN  d.total_unique_files + SumTotalUniqueFiles(fcs \ {d})

SubtreeStatus(descendants) ==
    IF \A d \in descendants : d.relationship = "identical" THEN "identical"
    ELSE IF \E d \in descendants : d.relationship = "overlap" THEN "overlap"
    ELSE "partial"

\* One folder comparison with its two rollup fields set.
RolledUp(fc, fcs) ==
    LET descendants == Descendants(fc.folder_path, fcs)
    IN  [folder_path         |-> fc.folder_path,
         services_present    |-> fc.services_present,
         relationship        |-> fc.relationship,
         total_unique_files  |-> fc.total_unique_files,
         files_in_all        |-> fc.files_in_all,
         details             |-> fc.details,
         subtree_status      |-> SubtreeStatus(descendants),
         subtree_total_files |-> SumTotalUniqueFiles(descendants)]

SubtreeRollup ==
    /\ pc = "folders"
    /\ folder_comparisons' = {RolledUp(fc, folder_comparisons) : fc \in folder_comparisons}
    /\ pc' = "rolled"
    /\ UNCHANGED <<labels, scanned, mtime_fuzz, use_checksum, duplicate_groups,
                   conflict_groups, symlinks, safe_to_delete_roots, call_vars>>

\* ------------------------------------------------- safe-to-delete roots --
has_identical_ancestor(path, identical_fcs) ==
    \E other \in identical_fcs :
        /\ path # other.folder_path
        /\ StartsWithSlash(path, other.folder_path)

SafeToDeleteRoots(fcs) ==
    LET identical_fcs == {fc \in fcs : fc.subtree_status = "identical"}
    IN  {fc \in identical_fcs : ~has_identical_ancestor(fc.folder_path, identical_fcs)}

SafeRoots ==
    /\ pc = "rolled"
    /\ safe_to_delete_roots' = SafeToDeleteRoots(folder_comparisons)
    /\ pc' = "done"
    /\ UNCHANGED <<labels, scanned, mtime_fuzz, use_checksum, duplicate_groups,
                   conflict_groups, symlinks, folder_comparisons, call_vars>>

\* ---------------------------------------------------------------- inputs --
\* The modification times of the scanned files: 4 seconds apart, so that
\* neighbours are within the default fuzz and the extremes are not.
MTimes == {1000 + 4 * i : i \in 0..(MTimeSteps - 1)}

\* Copies of one file name, in the top-level folder or in folder p: readable
\* files of two equal-sized contents, an unreadable file, an empty file, and
\* symlinks with two targets or an unresolvable one.
CopyDomain ==
    LET folders == {Dot, <<"p">>}
    IN  {RegularRecord(d, "f.txt", c, t, TRUE) :
            d \in folders, c \in {"hello", "world", ""}, t \in MTimes}
          \cup {RegularRecord(d, "f.txt", "hello", t, FALSE) :
                  d \in folders, t \in MTimes}
          \cup {SymlinkRecord(d, "f.txt", tg) :
                  d \in folders, tg \in {None, "/data/t1", "/data/t2"}}

\* The candidate files of the folder-tree inputs, in the order os.walk
\* visits them.
TreeDomain ==
    LET files(folder) == <<RegularRecord(folder, "a.txt", "hello", 1000, TRUE),
                           RegularRecord(folder, "a.txt", "world", 1000, TRUE),
                           RegularRecord(folder, "b.txt", "hello", 1000, TRUE)>>
    IN  files(Dot) \o files(<<"p">>) \o files(<<"p", "x">>) \o files(<<"q">>)

\* The scan of a directory holding the candidates with the given indices.
RECURSIVE TreeScan(_)
TreeScan(I) ==
    IF I = {} THEN <<>>
    ELSE <<TreeDomain[MinOf(I)]>> \o TreeScan(I \ {MinOf(I)})

\* The index sets of at most MaxFiles candidates with distinct paths.
TreeChoices ==
    {I \in SUBSET (1..Len(TreeDomain)) :
        /\ Cardinality(I) <= MaxFiles
        /\ \A i, j \in I : i # j => TreeDomain[i].rel_path # TreeDomain[j].rel_path}

InitOutputs ==
    /\ pc = "scanned"
    /\ duplicate_groups = {}
    /\ conflict_groups = {}
    /\ symlinks = {}
    /\ folder_comparisons = {}
    /\ safe_to_delete_roots = {}
    /\ pair_result = NoResult
    /\ md5_calls = {}

\* Three directories, each holding at most one copy of the same file name.
Init ==
    /\ labels = <<"A", "B", "C">>
    /\ scanned \in [{"A", "B", "C"} -> {<<>>} \cup {<<r>> : r \in CopyDomain}]
    /\ mtime_fuzz = DefaultMtimeFuzz
    /\ use_checksum \in BOOLEAN
    /\ InitOutputs

\* Two directories, each holding up to MaxFiles files in a small folder tree.
InitTree ==
    /\ labels = <<"A", "B">>
    /\ scanned \in [{"A", "B"} -> {TreeScan(I) : I \in TreeChoices}]
    /\ mtime_fuzz = DefaultMtimeFuzz
    /\ use_checksum \in BOOLEAN
    /\ InitOutputs

\* Any two records: three spellings of two names, four contents of three
\* sizes, readable or not, and symlinks with two targets or none.
PairDomain ==
    LET names == {"f.txt", "F.txt", "g.txt"}
    IN  {RegularRecord(Dot, nm, c, t, rd) :
            nm \in names, c \in {"hello", "world", "hi", ""},
            t \in MTimes, rd \in BOOLEAN}
          \cup {SymlinkRecord(Dot, nm, tg) :
                  nm \in names, tg \in {None, "/data/t1", "/data/t2"}}

\* Two directories of one record each, for a direct call of classify_pair
\* followed by analyze(). The fuzz is 0, the gap between two neighbouring
\* modification times, or the default.
InitPair ==
    /\ labels = <<"A", "B">>
    /\ scanned \in [{"A", "B"} -> {<<r>> : r \in PairDomain}]
    /\ mtime_fuzz \in {0, 4, DefaultMtimeFuzz}
    /\ use_checksum \in BOOLEAN
    /\ pc = "pair"
    /\ duplicate_groups = {}
    /\ conflict_groups = {}
    /\ symlinks = {}
    /\ folder_comparisons = {}
    /\ safe_to_delete_roots = {}
    /\ pair_result = NoResult
    /\ md5_calls = {}

Next ==
    \/ MainPass
    \/ MixedTypePass
    \/ FolderAnalysis
    \/ SubtreeRollup
    \/ SafeRoots

Spec == Init /\ [][Next]_vars

SpecTree == InitTree /\ [][Next]_vars

\* Two or three directories whose labels may coincide, each directory
\* holding at most one copy; scanned[label] is the scan of the last directory
\* given with that label.
LabelLists ==
    [1..2 -> {"A", "B"}] \cup [1..3 -> {"A", "B"}] \cup {<<"A", "B", "C">>}

InitLabels ==
    /\ labels \in LabelLists
    /\ scanned \in [Range(labels) -> {<<>>} \cup {<<r>> : r \in CopyDomain}]
    /\ mtime_fuzz = DefaultMtimeFuzz
    /\ use_checksum \in BOOLEAN
    /\ InitOutputs

SpecLabels == InitLabels /\ [][Next]_vars

\* Four directories, each holding any of three files: two in the folder p
\* and one in the folder p/x beneath it.
FolderDomain ==
    <<RegularRecord(<<"p">>, "a.txt", "hello", 1000, TRUE),
      RegularRecord(<<"p">>, "b.txt", "hello", 1000, TRUE),
      RegularRecord(<<"p", "x">>, "a.txt", "hello", 1000, TRUE)>>

RECURSIVE FolderScan(_)
FolderScan(I) ==
    IF I = {} THEN <<>>
    ELSE <<FolderDomain[MinOf(I)]>> \o FolderScan(I \ {MinOf(I)})

InitFolders ==
    /\ labels = <<"A", "B", "C", "D">>
    /\ scanned \in [Range(labels) ->
                      {FolderScan(I) : I \in SUBSET (1..Len(FolderDomain))}]
    /\ mtime_fuzz = DefaultMtimeFuzz
    /\ use_checksum \in BOOLEAN
    /\ InitOutputs

SpecFolders == InitFolders /\ [][Next]_vars

\* Two directories holding a.txt in the top-level folder and in the folder p,
\* each as a regular file or as a symlink, in the order os.walk visits them:
\* one name, so that one key can map to two records of one directory.
DupDomain ==
    <<RegularRecord(Dot, "a.txt", "hello", 1000, TRUE),
      SymlinkRecord(Dot, "a.txt", "/data/t1"),
      RegularRecord(<<"p">>, "a.txt", "hello", 1000, TRUE),
      RegularRecord(<<"p">>, "a.txt", "world", 1000, TRUE),
      SymlinkRecord(<<"p">>, "a.txt", "/data/t1"),
      SymlinkRecord(<<"p">>, "a.txt", "/data/t2")>>

RECURSIVE DupScan(_)
DupScan(I) ==
    IF I = {} THEN <<>>
    ELSE <<DupDomain[MinOf(I)]>> \o DupScan(I \ {MinOf(I)})

\* The index sets of candidates with distinct paths.
DupChoices ==
    {I \in SUBSET (1..Len(DupDomain)) :
        \A i, j \in I : i # j => DupDomain[i].rel_path # DupDomain[j].rel_path}

InitDup ==
    /\ labels = <<"A", "B">>
    /\ scanned \in [Range(labels) -> {DupScan(I) : I \in DupChoices}]
    /\ mtime_fuzz = DefaultMtimeFuzz
    /\ use_checksum \in BOOLEAN
    /\ InitOutputs

SpecDup == InitDup /\ [][Next]_vars

NextPair ==
    \/ ClassifyPair
    \/ Next

SpecPair == InitPair /\ [][NextPair]_vars

TypeOK ==
    /\ pc \in {"pair", "scanned", "matched", "mixed", "folders", "rolled", "done",
              "raised"}
    /\ use_checksum \in BOOLEAN

\* ================================================================ claims --
\* str(Path(rel_path).parent): the folder of a relative path.
FolderOf(rel_path) ==
    IF Len(rel_path) = 1 THEN Dot ELSE SubSeq(rel_path, 1, Len(rel_path) - 1)

\* G is a descendant of F in the rollup: G starts with F + "/", and every
\* folder is a descendant of "(root)".
IsDescendant(G, F) == G # F /\ (F = RootPath \/ StartsWithSlash(G, F))

\* A record's folder is the folder comparison path F or lies beneath it.
AtOrBeneath(folder, F) ==
    \/ F = RootPath
    \/ folder = F
    \/ StartsWithSlash(folder, F)

AllGroups == duplicate_groups \cup conflict_groups

\* The verdicts of classify_pair over all pairs of participants of a group.
PairVerdicts(g) ==
    {classify_pair(g.matches[pr[1]], g.matches[pr[2]], mtime_fuzz, use_checksum) :
        pr \in {q \in (DOMAIN g.matches) \X (DOMAIN g.matches) : q[1] # q[2]}}

\* C1: for every safe-to-delete root F, the copies of a file in or beneath F
\* that two present directories hold at the same relative path never have
\* differing digests, and no conflict group lies at or beneath F.
C1_SafeRootsContentIdentical ==
    pc = "done" =>
      \A F \in safe_to_delete_roots :
        /\ \A la \in Range(F.services_present) :
           \A lb \in Range(F.services_present) \ {la} :
           \A ra \in Range(scanned[la]) : \A rb \in Range(scanned[lb]) :
              ( /\ AtOrBeneath(ra.folder, F.folder_path)
                /\ ra.rel_path = rb.rel_path
                /\ use_checksum
                /\ md5(ra) # <<>>
                /\ md5(rb) # <<>> )
              => md5(ra) = md5(rb)
        /\ \A g \in conflict_groups :
              ~AtOrBeneath(FolderOf(g.rel_path), F.folder_path)

\* C2: removing a safe-to-delete root from one directory loses no unique
\* data: every file a present directory holds in or beneath the root has a
\* file with the same folder and case-folded name in every other present
\* directory.
C2_SafeRootsLoseNothing ==
    pc = "done" =>
      \A F \in safe_to_delete_roots :
      \A d \in Range(F.services_present) :
      \A r \in Range(scanned[d]) :
        AtOrBeneath(r.folder, F.folder_path) =>
          \A e \in Range(F.services_present) \ {d} :
            \E r2 \in Range(scanned[e]) :
              r2.folder = r.folder /\ r2.name = r.name

\* C3: the safe-to-delete roots form an antichain: no returned root is a
\* descendant of another returned root.
C3_SafeRootsAntichain ==
    pc = "done" =>
      \A F \in safe_to_delete_roots : \A G \in safe_to_delete_roots :
        ~IsDescendant(G.folder_path, F.folder_path)

\* C4: whenever one directory holds a symlink and another directory holds a
\* regular file at the same case-folded relative path, conflict_groups has a
\* (mixed_type, conflict) group for that path.
C4_TypeMismatchReported ==
    pc = "done" =>
      \A la \in Range(labels) : \A lb \in Range(labels) \ {la} :
      \A ra \in Range(scanned[la]) : \A rb \in Range(scanned[lb]) :
        ( /\ ra.is_symlink
          /\ ~rb.is_symlink
          /\ LowerPath(ra.rel_path) = LowerPath(rb.rel_path) )
        => \E g \in conflict_groups :
              /\ LowerPath(g.rel_path) = LowerPath(ra.rel_path)
              /\ g.content_match = "mixed_type"
              /\ g.version_status = "conflict"

\* C5: a group whose aggregated version status is phantom has aggregated
\* content different and is a conflict group; no duplicate group is phantom.
C5_PhantomNeverDuplicate ==
    /\ \A g \in AllGroups :
          g.version_status = "phantom" =>
            g.content_match = "different" /\ g \in conflict_groups
    /\ \A g \in duplicate_groups : g.version_status # "phantom"

\* C5 witness: a finished run with a three-way phantom conflict group in
\* which some pair of copies is identical.
C5_Witness ==
    /\ pc = "done"
    /\ \E g \in conflict_groups :
          /\ g.version_status = "phantom"
          /\ Cardinality(DOMAIN g.matches) = 3
          /\ <<"identical", "same">> \in PairVerdicts(g)

\* C6: worst case wins: the aggregated content match and version status of a
\* group of regular files are the maxima, under the two rank orders, of the
\* verdicts of classify_pair over all pairs of participating directories.
C6_WorstCaseWins ==
    \A g \in {h \in AllGroups : h.content_match # "mixed_type"} :
      /\ content_rank(g.content_match) =
            MaxOf({content_rank(v[1]) : v \in PairVerdicts(g)})
      /\ version_rank(g.version_status) =
            MaxOf({version_rank(v[2]) : v \in PairVerdicts(g)})

\* C6 witness: a finished run with a three-way group whose last pair has a
\* lower content rank and a lower version rank than the aggregate.
C6_Witness ==
    /\ pc = "done"
    /\ \E g \in AllGroups :
          /\ g.content_match # "mixed_type"
          /\ Cardinality(DOMAIN g.matches) = 3
          /\ LET last == classify_pair(g.matches["B"], g.matches["C"],
                                       mtime_fuzz, use_checksum)
             IN  /\ content_rank(last[1]) < content_rank(g.content_match)
                 /\ version_rank(last[2]) < version_rank(g.version_status)

\* C7: duplicate groups have content identical or unverified, conflict groups
\* have content different or mixed_type, and every key whose fold finishes
\* with content different is a conflict group and not a duplicate group.
C7_BucketRouting ==
    /\ \A g \in duplicate_groups : g.content_match \in {"identical", "unverified"}
    /\ \A g \in conflict_groups : g.content_match \in {"different", "mixed_type"}
    /\ pc # "scanned" =>
         \A key \in all_keys :
           LET present_in == present_in_key(key)
               acc == FoldPairs(Combinations2(label_list(present_in)),
                                present_in, FoldStart)
               g == MakeGroup(present_in, acc.group_content, acc.group_version)
           IN  ( /\ Cardinality(DOMAIN present_in) >= 2
                 /\ acc.all_matched
                 /\ acc.group_content = "different" )
               => g \in conflict_groups /\ g \notin duplicate_groups

\* C7 witness: a finished run with a duplicate group and a conflict group of
\* content different side by side.
C7_Witness ==
    /\ pc = "done"
    /\ \E g \in duplicate_groups : g.content_match \in {"identical", "unverified"}
    /\ \E g \in conflict_groups : g.content_match = "different"

\* C8: after the rollup, subtree_status of a folder comparison is identical
\* exactly when every folder comparison in its closed descendant set has
\* relationship identical.
C8_SubtreeIdenticalIff ==
    pc \in {"rolled", "done"} =>
      \A fc \in folder_comparisons :
        (fc.subtree_status = "identical") <=>
          (\A d \in folder_comparisons :
              ( \/ d.folder_path = fc.folder_path
                \/ IsDescendant(d.folder_path, fc.folder_path) )
              => d.relationship = "identical")

\* C8 witness: a finished run in which the top-level folder is identical by
\* its direct files but not by its subtree, because of a folder beneath it.
C8_Witness ==
    /\ pc = "done"
    /\ \E fc \in folder_comparisons :
          /\ fc.folder_path = RootPath
          /\ fc.relationship = "identical"
          /\ fc.subtree_status # "identical"

\* C9: safe_to_delete_roots is exactly the set of maximal identical subtrees:
\* every returned root has subtree_status identical and no ancestor with
\* subtree_status identical, and every folder comparison with subtree_status
\* identical is a returned root or a descendant of exactly one returned root.
C9_SafeRootsMaximal ==
    pc = "done" =>
      /\ \A F \in safe_to_delete_roots :
            /\ F.subtree_status = "identical"
            /\ ~\E a \in folder_comparisons :
                  /\ a.subtree_status = "identical"
                  /\ IsDescendant(F.folder_path, a.folder_path)
      /\ \A fc \in folder_comparisons :
            fc.subtree_status = "identical" =>
              \/ fc \in safe_to_delete_roots
              \/ Cardinality({F \in safe_to_delete_roots :
                    IsDescendant(fc.folder_path, F.folder_path)}) = 1

\* C10: every group merges copies at one relative path: the record of every
\* participating directory has the group's relative path.
C10_GroupOneRelPath ==
    \A g \in AllGroups :
      \A l \in DOMAIN g.matches :
        LowerPath(g.matches[l].rel_path) = LowerPath(g.rel_path)


\* ---- direct calls of classify_pair ----

\* The two records handed to classify_pair by ClassifyPair.
PairA == scanned["A"][1]

PairB == scanned["B"][1]

\* The direct call has returned.
Called == pc # "pair"

BothRegular == ~PairA.is_symlink /\ ~PairB.is_symlink

\* Regular, equal name key, equal size.
SameKey == BothRegular /\ PairA.name = PairB.name /\ PairA.size = PairB.size

WithinFuzz == Abs(PairA.mtime - PairB.mtime) <= mtime_fuzz

ByMtime == IF WithinFuzz THEN "same" ELSE "diverged"

\* C11: two regular records with equal name key and size 0 are
\* (identical, same) for every pair of modification times, every fuzz and
\* both values of use_checksum, and no digest is computed.
C11_EmptyAlwaysIdenticalSame ==
    (Called /\ SameKey /\ PairA.size = 0)
        => (pair_result = <<"identical", "same">> /\ md5_calls = {})

C11_Witness ==
    /\ Called /\ SameKey /\ PairA.size = 0
    /\ ~WithinFuzz
    /\ use_checksum
    /\ ~PairA.readable
    /\ pair_result = <<"identical", "same">>

\* C12: with use_checksum false, two regular non-empty records with equal
\* name key and size are (unverified, same) within the fuzz and
\* (unverified, diverged) beyond it, whatever their contents; and analyze()
\* then yields no Group that is phantom or has content_match different.
C12_NoChecksumUnverified ==
    ~use_checksum =>
        /\ (Called /\ SameKey /\ PairA.size # 0)
              => pair_result = <<"unverified", ByMtime>>
        /\ \A g \in AllGroups :
              g.version_status # "phantom" /\ g.content_match # "different"

C12_Witness ==
    /\ pc = "done"
    /\ ~use_checksum
    /\ SameKey /\ PairA.size # 0
    /\ PairA.content # PairB.content
    /\ PairA.readable /\ PairB.readable
    /\ pair_result = <<"unverified", "same">>
    /\ \E g \in duplicate_groups : g.content_match = "unverified"

\* C13: with use_checksum true and both digests computed, two regular
\* non-empty records with equal name key and size are identical or different
\* as the digests are equal or not, and within the fuzz (boundary included)
\* the version is same for identical and phantom for different, beyond it
\* diverged.
C13_ChecksumVerdicts ==
    (Called /\ use_checksum /\ SameKey /\ PairA.size # 0
       /\ PairA.readable /\ PairB.readable)
        => pair_result =
             IF PairA.content = PairB.content
               THEN <<"identical", ByMtime>>
               ELSE <<"different", IF WithinFuzz THEN "phantom" ELSE "diverged">>

C13_Witness ==
    /\ Called /\ use_checksum /\ SameKey /\ PairA.size # 0
    /\ PairA.readable /\ PairB.readable
    /\ PairA.content # PairB.content
    /\ mtime_fuzz > 0
    /\ Abs(PairA.mtime - PairB.mtime) = mtime_fuzz
    /\ pair_result = <<"different", "phantom">>

\* C14: with use_checksum true, if the digest of either record fails, the
\* verdict is the one of use_checksum false, (unverified, same) within the
\* fuzz and (unverified, diverged) beyond it, whether or not the other
\* digest succeeded.
C14_HashFailureFallsBack ==
    (Called /\ use_checksum /\ SameKey /\ PairA.size # 0
       /\ (~PairA.readable \/ ~PairB.readable))
        => pair_result = <<"unverified", ByMtime>>

C14_Witness ==
    /\ Called /\ use_checksum /\ SameKey /\ PairA.size # 0
    /\ PairA.readable /\ ~PairB.readable
    /\ PairA.content # PairB.content
    /\ ~WithinFuzz
    /\ pair_result = <<"unverified", "diverged">>

\* C15: if exactly one of the two records is a symlink the verdict is
\* (mixed_type, conflict) whatever the names, sizes, times, target, fuzz and
\* use_checksum; the pair never yields None.
C15_OneSymlinkMixedType ==
    (Called /\ PairA.is_symlink # PairB.is_symlink)
        => pair_result = <<"mixed_type", "conflict">>

C15_Witness ==
    /\ Called
    /\ PairA.is_symlink /\ ~PairB.is_symlink
    /\ PairA.name # PairB.name
    /\ PairA.symlink_target = None
    /\ pair_result = <<"mixed_type", "conflict">>

\* C16: if both records are symlinks the verdict is (symlink, target_identical)
\* exactly when both targets are not None and equal, (symlink, target_diverged)
\* otherwise, two None targets included; no digest is computed.
C16_SymlinkTargets ==
    (Called /\ PairA.is_symlink /\ PairB.is_symlink)
        => /\ pair_result =
                IF /\ PairA.symlink_target # None
                   /\ PairB.symlink_target # None
                   /\ PairA.symlink_target = PairB.symlink_target
                  THEN <<"symlink", "target_identical">>
                  ELSE <<"symlink", "target_diverged">>
           /\ md5_calls = {}

C16_Witness ==
    /\ Called
    /\ PairA.is_symlink /\ PairB.is_symlink
    /\ PairA.symlink_target = None /\ PairB.symlink_target = None
    /\ pair_result = <<"symlink", "target_diverged">>

\* C17: classify_pair returns None if and only if both records are regular
\* files whose name keys or sizes differ; otherwise it returns a verdict.
C17_NoneIffGuard ==
    Called =>
        ((pair_result = NoResult)
            <=> (BothRegular /\ (PairA.name # PairB.name
                                   \/ PairA.size # PairB.size)))

C17_Witness ==
    /\ Called
    /\ BothRegular
    /\ PairA.name # PairB.name
    /\ PairA.size = PairB.size /\ PairA.content = PairB.content
    /\ pair_result = NoResult


\* ---- labels ----

\* C18: every Group, SymlinkEntry and FolderComparison of analyze() has at
\* least 2 distinct participating labels, for two or more directories,
\* whether or not their labels are distinct.
C18_AtLeastTwoLabels ==
    /\ \A g \in AllGroups : Cardinality(DOMAIN g.matches) >= 2
    /\ \A e \in symlinks : Cardinality(Range(e.services)) >= 2
    /\ \A fc \in folder_comparisons :
          Cardinality(Range(fc.services_present)) >= 2

C18_Witness ==
    /\ pc = "done"
    /\ labels = <<"A", "A", "B">>
    /\ \E fc \in folder_comparisons : fc.services_present = <<"A", "A", "B">>
    /\ \E g \in AllGroups : DOMAIN g.matches = {"A", "B"}


\* ---- newest_in and subtree totals ----

\* C19: for every Group, newest_in is set exactly when version_status is
\* diverged or phantom, and then names a participant whose record has the
\* largest modification time of the Group; with version_status same it is
\* None.
C19_NewestIn ==
    \A g \in AllGroups :
        /\ (g.newest_in # None) <=> (g.version_status \in {"diverged", "phantom"})
        /\ g.newest_in # None =>
              /\ g.newest_in \in DOMAIN g.matches
              /\ \A l \in DOMAIN g.matches :
                    g.matches[l].mtime <= g.matches[g.newest_in].mtime
        /\ g.version_status = "same" => g.newest_in = None

C19_Witness ==
    \E g \in AllGroups :
        /\ DOMAIN g.matches = {"A", "B", "C"}
        /\ g.version_status = "phantom"
        /\ g.newest_in = "C"
        /\ g.matches["A"].mtime < g.matches["B"].mtime
        /\ g.matches["B"].mtime < g.matches["C"].mtime

\* The names directly in the folder of fc, in the directories present there.
DirectNames(fc) ==
    {r.name : r \in {q \in UNION {Range(scanned[l]) : l \in Range(fc.services_present)} :
                        q.folder = IF fc.folder_path = RootPath
                                     THEN Dot ELSE fc.folder_path}}

\* The sum of total_unique_files over the folder comparisons whose path is
\* in paths.
RECURSIVE DirectTotal(_)
DirectTotal(paths) ==
    IF paths = {} THEN 0
    ELSE LET p == CHOOSE x \in paths : TRUE
             d == CHOOSE x \in folder_comparisons : x.folder_path = p
         IN  d.total_unique_files + DirectTotal(paths \ {p})

\* C20: after the rollup, total_unique_files of a folder comparison is the
\* number of distinct names directly in its folder, and subtree_total_files
\* is the sum of total_unique_files over itself and its descendants.
C20_SubtreeTotalFiles ==
    pc \in {"rolled", "done"} =>
      \A fc \in folder_comparisons :
        /\ fc.total_unique_files = Cardinality(DirectNames(fc))
        /\ fc.subtree_total_files =
             DirectTotal({d.folder_path : d \in
                 {x \in folder_comparisons :
                     \/ x.folder_path = fc.folder_path
                     \/ IsDescendant(x.folder_path, fc.folder_path)}})

\* C20 witness: a folder with no direct files reporting the files beneath it,
\* under a top-level folder that adds its own.
C20_Witness ==
    /\ pc = "done"
    /\ \E fc \in folder_comparisons :
          /\ fc.folder_path = <<"p">>
          /\ fc.total_unique_files = 0
          /\ fc.subtree_total_files = 2
    /\ \E fc \in folder_comparisons :
          /\ fc.folder_path = RootPath
          /\ fc.total_unique_files = 1
          /\ fc.subtree_total_files = 3


\* ---- completion ----

\* The output items whose participants all carry the MatchKey key.
ItemsOfKey(key) ==
    {g \in AllGroups :
        \A l \in DOMAIN g.matches : <<g.matches[l].name, g.matches[l].size>> = key}
      \cup {e \in symlinks : <<Lower(e.name_orig), -1>> = key}

\* Every MatchKey held under two or more labels has exactly one output item.
EveryKeyOneItem ==
    pc \in {"matched", "mixed", "folders", "rolled", "done"} =>
      \A key \in all_keys :
        Cardinality(DOMAIN present_in_key(key)) >= 2
            => Cardinality(ItemsOfKey(key)) = 1

\* C21: analyze() never raises, whatever digests fail and whatever symlink
\* targets are None, and every MatchKey present in two or more directories
\* yields exactly one item among duplicate_groups, conflict_groups and
\* symlinks.
C21_NoErrorIsFatal ==
    /\ pc # "raised"
    /\ EveryKeyOneItem


\* ---- folder presence, relationship and details ----

\* Every folder path of the comparison tree: the top-level folder, every
\* folder holding a file in some directory, and every ancestor of one.
FolderPaths ==
    LET direct == UNION {{r.folder : r \in Range(scanned[l])} : l \in Range(labels)}
        named  == UNION {{SubSeq(f, 1, n) : n \in 1..Len(f)} : f \in direct \ {Dot}}
    IN  {RootPath} \cup named

\* The labels with at least one file in folder path F or beneath it.
Holders(F) ==
    {l \in Range(labels) : \E r \in Range(scanned[l]) : AtOrBeneath(r.folder, F)}

\* C22: a directory is listed in services_present of a folder exactly when it
\* has a file in the folder or beneath it, the top-level folder included, and
\* a folder comparison exists for a folder path exactly when two or more
\* directories have files at or beneath it.
C22_PresenceAtOrBeneath ==
    pc \in {"folders", "rolled", "done"} =>
      /\ \A fc \in folder_comparisons :
            Range(fc.services_present) = Holders(fc.folder_path)
      /\ \A F \in FolderPaths :
            (\E fc \in folder_comparisons : fc.folder_path = F)
                <=> Cardinality(Holders(F)) >= 2


\* The names label holds directly in the folder of fc.
DirectNamesIn(label, fc) ==
    {r.name : r \in {q \in Range(scanned[label]) :
                        q.folder = IF fc.folder_path = RootPath
                                     THEN Dot ELSE fc.folder_path}}

\* One direct name set strictly contains the other.
StrictlyNested(s, t) == (s \subseteq t /\ s # t) \/ (t \subseteq s /\ s # t)

\* C23: relationship of a folder comparison follows from the direct name
\* sets of its present directories: identical iff they are all equal,
\* overlap iff some two of them are neither equal nor strictly nested,
\* subset/superset otherwise.
C23_Relationship ==
    pc \in {"folders", "rolled", "done"} =>
      \A fc \in folder_comparisons :
        LET sets == {DirectNamesIn(l, fc) : l \in Range(fc.services_present)}
        IN  fc.relationship =
              IF Cardinality(sets) = 1 THEN "identical"
              ELSE IF \E x \in sets : \E y \in sets :
                        x # y /\ ~StrictlyNested(x, y)
                THEN "overlap"
              ELSE "subset/superset"

\* C23 witness: four present directories, one with no direct file, two with
\* the same files and one with more, compared as subset/superset.
C23_Witness ==
    /\ pc = "done"
    /\ \E fc \in folder_comparisons :
          /\ fc.folder_path = <<"p">>
          /\ fc.services_present = <<"A", "B", "C", "D">>
          /\ DirectNamesIn("A", fc) = {"a.txt", "b.txt"}
          /\ DirectNamesIn("B", fc) = {}
          /\ DirectNamesIn("C", fc) = {"a.txt"}
          /\ DirectNamesIn("D", fc) = {"a.txt"}
          /\ fc.relationship = "subset/superset"

\* The present directories of fc that hold the name directly in its folder.
HoldersOfName(nm, fc) ==
    {l \in Range(fc.services_present) : nm \in DirectNamesIn(l, fc)}

\* C24: in the details of a folder comparison, in_all is the intersection of
\* the direct name sets, a name under "<label>_only" is held by that
\* directory only, and a name under "la+lb" is held by la and lb and by no
\* other present directory and is not in in_all.
C24_DetailsExact ==
    pc \in {"folders", "rolled", "done"} =>
      \A fc \in folder_comparisons :
        /\ fc.details.in_all =
              {nm \in DirectNames(fc) :
                  HoldersOfName(nm, fc) = Range(fc.services_present)}
        /\ \A label \in DOMAIN fc.details.only :
           \A nm \in fc.details.only[label] :
              HoldersOfName(nm, fc) = {label}
        /\ \A pr \in DOMAIN fc.details.pairs :
           \A nm \in fc.details.pairs[pr] :
              /\ HoldersOfName(nm, fc) = {pr[1], pr[2]}
              /\ nm \notin fc.details.in_all


\* ---- the calls of the main aggregation pass ----

\* The pairs of records the main pass hands to classify_pair: for every key
\* with two or more participants, the pairs of combinations(label_list, 2).
\* (The loop may stop before the last pair; every call it makes is here.)
MainPassCalls ==
    UNION {{<<present_in_key(key)[pr[1]], present_in_key(key)[pr[2]]>> :
               pr \in Range(Combinations2(label_list(present_in_key(key))))} :
           key \in {k \in all_keys : Cardinality(DOMAIN present_in_key(k)) >= 2}}

\* C25: in every call of classify_pair by the main pass the two records
\* share name key and size and are both symlinks or both regular files, and
\* the result is neither None nor (mixed_type, conflict).
C25_MainPassCallsComparable ==
    \A call \in MainPassCalls :
        /\ call[1].name = call[2].name
        /\ call[1].size = call[2].size
        /\ call[1].is_symlink = call[2].is_symlink
        /\ classify_pair(call[1], call[2], mtime_fuzz, use_checksum) # NoResult
        /\ classify_pair(call[1], call[2], mtime_fuzz, use_checksum)[1]
              # "mixed_type"

\* C25 witness: a symlink beside two same-named empty regular files; the
\* main pass pairs the two files only.
C25_Witness ==
    /\ pc = "done"
    /\ scanned["A"] # <<>> /\ scanned["B"] # <<>> /\ scanned["C"] # <<>>
    /\ scanned["A"][1].is_symlink
    /\ scanned["A"][1].folder = Dot
    /\ MainPassCalls = {<<scanned["B"][1], scanned["C"][1]>>}
    /\ \E g \in duplicate_groups :
          /\ DOMAIN g.matches = {"B", "C"}
          /\ g.matches["B"].size = 0
          /\ g.matches["B"].folder = Dot


\* ---- several records of one key in one directory ----

\* The first record, in scan order, of label with the (name, size) key.
FirstWithKey(label, key) ==
    LET at == {i \in DOMAIN scanned[label] :
                  <<scanned[label][i].name, scanned[label][i].size>> = key}
    IN  scanned[label][MinOf(at)]

\* C26: the participant of a directory in an item of the main pass is the
\* first record, in scan order, that the directory holds for the item's key;
\* later records with the key are in no such item, and nothing is raised.
C26_FirstRecordOnly ==
    /\ pc # "raised"
    /\ \A g \in AllGroups :
          g.content_match # "mixed_type" =>
            \A l \in DOMAIN g.matches :
               g.matches[l] =
                  FirstWithKey(l, <<g.matches[l].name, g.matches[l].size>>)
    /\ \A e \in symlinks :
          \A l \in Range(e.services) :
             e.symlink_targets[l] =
                FirstWithKey(l, <<Lower(e.name_orig), -1>>).symlink_target

\* C26 witness: A holds a.txt twice with one key, and its first record, not
\* the one at B's path, is compared with B's copy.
C26_Witness ==
    /\ pc = "done"
    /\ Len(scanned["A"]) = 2 /\ Len(scanned["B"]) = 1
    /\ scanned["A"][1].rel_path = <<"a.txt">>
    /\ scanned["A"][2].rel_path = <<"p", "a.txt">>
    /\ scanned["A"][1].size = scanned["A"][2].size
    /\ scanned["B"][1] = scanned["A"][2]
    /\ \E g \in conflict_groups :
          /\ g.content_match = "different"
          /\ g.matches["A"] = scanned["A"][1]
          /\ g.matches["B"] = scanned["B"][1]


\* The (directory, relative path) records taking part in a Group.
GroupParticipants(g) == {<<l, g.matches[l].rel_path>> : l \in DOMAIN g.matches}

\* The (directory, relative path) records taking part in a SymlinkEntry: for
\* each of its services the record the main pass took for the entry's key.
EntryParticipants(e) ==
    {<<l, FirstWithKey(l, <<Lower(e.name_orig), -1>>).rel_path>> :
        l \in Range(e.services)}

\* C29: no scanned record takes part in two output items of
\* duplicate_groups, conflict_groups and symlinks together, the groups of
\* the mixed-type pass included.
C29_OneItemPerRecord ==
    /\ \A g \in AllGroups : \A h \in AllGroups \ {g} :
          GroupParticipants(g) \cap GroupParticipants(h) = {}
    /\ \A e \in symlinks : \A f \in symlinks \ {e} :
          EntryParticipants(e) \cap EntryParticipants(f) = {}
    /\ \A g \in AllGroups : \A e \in symlinks :
          GroupParticipants(g) \cap EntryParticipants(e) = {}


\* ---- order of the directories ----

\* The orders in which the labels of S can be passed.
Orders(S) ==
    {f \in [1..Cardinality(S) -> S] : \A i, j \in DOMAIN f : i # j => f[i] # f[j]}

\* C27: for every Group of regular files, the pairwise fold run in any order
\* of the participating directories gives the Group's content_match and
\* version_status and routes it to the Group's bucket.
C27_FoldOrderIndependent ==
    \A g \in AllGroups :
      g.content_match # "mixed_type" =>
        \A order \in Orders(DOMAIN g.matches) :
          LET acc == FoldPairs(Combinations2(order), g.matches, FoldStart)
          IN  /\ acc.exit = "none"
              /\ acc.group_content = g.content_match
              /\ acc.group_version = g.version_status
              /\ (Bucket(acc.group_content) = "conflict")
                    <=> (g \in conflict_groups)

\* C27 witness: three participants whose pairs get three different verdicts.
C27_Witness ==
    \E g \in conflict_groups :
        /\ DOMAIN g.matches = {"A", "B", "C"}
        /\ g.content_match = "different" /\ g.version_status = "phantom"
        /\ <<"identical", "diverged">> \in PairVerdicts(g)
        /\ <<"different", "diverged">> \in PairVerdicts(g)
        /\ <<"different", "phantom">> \in PairVerdicts(g)


\* C28: a SymlinkEntry reports target_identical exactly when the link
\* targets of all its participating directories are not None and equal; a
\* different or None target anywhere makes it target_diverged.
C28_SymlinkEntryWholeKey ==
    \A e \in symlinks :
        (e.symlink_status = "target_identical")
            <=> \A la \in DOMAIN e.symlink_targets :
                \A lb \in DOMAIN e.symlink_targets :
                    /\ e.symlink_targets[la] # None
                    /\ e.symlink_targets[la] = e.symlink_targets[lb]


\* ---- closeness of timestamps ----

\* The modification times of the participants of a Group.
GroupMtimes(g) == {g.matches[l].mtime : l \in DOMAIN g.matches}

\* C30: for a Group of three or more non-empty regular files with equal
\* contents, or with use_checksum false, version_status is same exactly when
\* the largest and the smallest modification time differ by at most
\* mtime_fuzz, and diverged otherwise.
C30_ExtremesDecide ==
    \A g \in AllGroups :
      ( /\ Cardinality(DOMAIN g.matches) >= 3
        /\ \A l \in DOMAIN g.matches :
              ~g.matches[l].is_symlink /\ g.matches[l].size # 0
        /\ \/ ~use_checksum
           \/ \A la \in DOMAIN g.matches : \A lb \in DOMAIN g.matches :
                 g.matches[la].content = g.matches[lb].content )
      => g.version_status =
            IF MaxOf(GroupMtimes(g)) - MinOf(GroupMtimes(g)) <= mtime_fuzz
              THEN "same" ELSE "diverged"

\* C30 witness: a chain of three equal files, each within the fuzz of its
\* neighbour, the extremes further apart.
C30_Witness ==
    /\ use_checksum
    /\ \E g \in duplicate_groups :
          /\ DOMAIN g.matches = {"A", "B", "C"}
          /\ g.content_match = "identical"
          /\ g.matches["B"].mtime - g.matches["A"].mtime = 4
          /\ g.matches["C"].mtime - g.matches["B"].mtime = 4
          /\ mtime_fuzz = 5
          /\ g.version_status = "diverged"

====
